---- MODULE Spec2Model ----
(***************************************************************************)
(* Model of src/main.py: a FastAPI service with three routes that forwards *)
(* prompts to a generative-model provider and maps failures to HTTP        *)
(* responses.                                                              *)
(*                                                                         *)
(* Python values are represented as follows.                               *)
(*   - None is None (the empty tuple); a str value v that may also be None *)
(*     is the 1-tuple <<v>>.                                               *)
(*   - The text a provider response carries is a sequence of one-character *)
(*     strings, so that str.strip() is computed character by character.    *)
(*   - Every other str (prompts, details, exception messages) is a string. *)
(*   - An exception is a record [class, args].                             *)
(*   - An HTTP response is [status, body, calls]; calls is the list of     *)
(*     prompts the handler passed to model.generate_content while it       *)
(*     produced the response.                                              *)
(***************************************************************************)
EXTENDS Naturals, Sequences, FiniteSets, TLC

VARIABLES phase, GENAI_API_KEY, available_models, fetch_failed, last

vars == <<phase, GENAI_API_KEY, available_models, fetch_failed, last>>

(***************************************************************************)
(* Bounds and input sets                                                   *)
(***************************************************************************)
MaxTextLen == 3

None == <<>>

\* Values of the GENAI_API_KEY environment variable after load_dotenv().
EnvValues == {None, <<"">>, <<"k-1">>}

\* Characters of a provider text: two whitespace characters and a letter.
Whitespace == {" ", "\n"}

Chars == Whitespace \cup {"Q"}

RECURSIVE TextsOfLen(_)
TextsOfLen(n) ==
    IF n = 0 THEN {<<>>}
    ELSE {Append(t, c) : t \in TextsOfLen(n - 1), c \in Chars}

Texts == UNION {TextsOfLen(n) : n \in 0..MaxTextLen}

\* Model names genai.list_models() may report.
ModelLists ==
    { <<>>,
      <<"models/gemini-pro">>,
      <<"models/gemini-1.5-flash">>,
      <<"models/gemini-pro", "models/gemini-1.5-flash">> }

\* The query of GET /generate_question: topic absent, or present.
Queries == {None, <<"algebra">>, <<"">>}

\* The JSON body of POST /evaluate_answer: any subset of the two fields.
Bodies ==
    { [f \in D |-> IF f = "question" THEN "2+2?" ELSE "5"] :
        D \in SUBSET {"question", "answer"} }

Reasons == {"bad prompt", "timed out"}

\* Exception classes the provider call may raise.  Each is a subclass of
\* Exception; HTTPException (fastapi) is a subclass of Exception as well.
\* RateLimitError and RequestError are genai.types.RateLimitError and
\* genai.types.RequestError, taken to be exception classes of the provider
\* library as the except clauses of lines 58, 61, 92 and 95 name them.
ProviderErrors == {"RateLimitError", "RequestError", "ConnectionError"}

\* What one call of model.generate_content does, and what response.text
\* does with its result: the call raises, or it returns a response whose
\* text is t, or it returns a response whose .text accessor raises
\* ValueError (a response without text parts).
Outcomes ==
    {[kind |-> "raise", exc |-> [class |-> c, args |-> <<m>>]] :
        c \in ProviderErrors, m \in Reasons}
    \cup {[kind |-> "text", text |-> t] : t \in Texts}
    \cup {[kind |-> "no_text"]}

(***************************************************************************)
(* Python helpers                                                          *)
(***************************************************************************)
\* Truth value of an optional str: None and "" are falsy.
Truthy(v) == v /= None /\ v[1] /= ""

\* x in list
InList(x, l) == \E i \in 1..Len(l) : l[i] = x

RECURSIVE lstrip(_)
lstrip(s) ==
    IF s /= <<>> /\ Head(s) \in Whitespace THEN lstrip(Tail(s)) ELSE s

RECURSIVE rstrip(_)
rstrip(s) ==
    IF s /= <<>> /\ s[Len(s)] \in Whitespace
    THEN rstrip(SubSeq(s, 1, Len(s) - 1))
    ELSE s

\* A mutated strip that leaves trailing whitespace in place.
strip_leading_only(s) == lstrip(s)

\* str.strip() with no argument
strip(s) == rstrip(lstrip(s))

HTTPException(status_code, detail) ==
    [class |-> "HTTPException", args |-> <<status_code, detail>>]

\* isinstance(e, cls) for the classes of this model; every class derives
\* from Exception and no two other classes are related.
IsInstance(e, cls) == cls = "Exception" \/ e.class = cls

\* str(e): the message of an exception; for HTTPException the status code,
\* a colon and the detail.
str(e) ==
    IF e.class = "HTTPException"
    THEN ToString(e.args[1]) \o ": " \o e.args[2]
    ELSE e.args[1]

\* How the framework answers: a returned dict is a 200 JSON body, a raised
\* HTTPException is its status code with the body {"detail": detail}.
Returned(value, calls) == [status |-> 200, body |-> value, calls |-> calls]

Raised(e, calls) ==
    [status |-> e.args[1], body |-> [detail |-> e.args[2]], calls |-> calls]

(***************************************************************************)
(* Startup: the module body, lines 23-37                                   *)
(***************************************************************************)
\* os.getenv("GENAI_API_KEY")
os_getenv(env) == env

\* A mutated check that tests only for an unset variable.
KeyMissingNoneOnly(key) == key = None

\* The check of line 24: a missing or empty key aborts the import.
KeyMissing(key) == ~Truthy(key)

\* A mutated fallback that assumes the configured model is available.
ModelsOnFetchErrorDefault == <<"models/gemini-1.5-flash">>

\* The except branch of the model-list fetch, line 37.
ModelsOnFetchError == <<>>

NoRequest == [endpoint |-> "none"]

Init ==
    /\ phase = "import"
    /\ GENAI_API_KEY = None
    /\ available_models = <<>>
    /\ fetch_failed = FALSE
    /\ last = NoRequest

\* Lines 23-28: read the key; raise ValueError (the process does not start)
\* when it is missing, configure the provider otherwise.
LoadKey ==
    /\ phase = "import"
    /\ \E env \in EnvValues :
        /\ GENAI_API_KEY' = os_getenv(env)
        /\ phase' = IF KeyMissing(os_getenv(env)) THEN "crashed" ELSE "configured"
    /\ UNCHANGED <<available_models, fetch_failed, last>>

\* Lines 31-34: the fetch of the model list succeeds.
ListModels ==
    /\ phase = "configured"
    /\ \E names \in ModelLists : available_models' = names
    /\ fetch_failed' = FALSE
    /\ phase' = "serving"
    /\ UNCHANGED <<GENAI_API_KEY, last>>

\* Lines 35-37: the fetch raises; the list is left empty and startup goes on.
ListModelsFails ==
    /\ phase = "configured"
    /\ available_models' = ModelsOnFetchError
    /\ fetch_failed' = TRUE
    /\ phase' = "serving"
    /\ UNCHANGED <<GENAI_API_KEY, last>>

(***************************************************************************)
(* GET /                                                                   *)
(***************************************************************************)
read_root ==
    Returned([message |-> "Welcome to the GenAI Learning Games API!"], <<>>)

(***************************************************************************)
(* GET /generate_question                                                  *)
(***************************************************************************)
model_name == "models/gemini-1.5-flash"

ModelNotFound ==
    HTTPException(400,
        "Model " \o model_name \o " not found. Check your API access.")

\* The outcome of a provider call made with `prompt`: the value the try
\* block returns under `key`, or the exception that leaves it.
generate_content(prompt, o, key) ==
    IF o.kind = "raise" THEN [tag |-> "raise", exc |-> o.exc, calls |-> <<prompt>>]
    ELSE IF o.kind = "no_text"
    THEN [tag |-> "raise",
          exc |-> [class |-> "ValueError", args |-> <<"no text in response">>],
          calls |-> <<prompt>>]
    ELSE [tag |-> "return",
          value |-> [k \in {key} |-> strip(o.text)],
          calls |-> <<prompt>>]

\* A mutated try block that calls the provider a second time after a failure.
generate_question_try_retry(topic, o) ==
    IF ~InList(model_name, available_models)
    THEN [tag |-> "raise", exc |-> ModelNotFound, calls |-> <<>>]
    ELSE LET r == generate_content("Generate a " \o topic \o " learning question.",
                                   o, "question")
         IN  IF r.tag = "raise"
             THEN [r EXCEPT !.calls = r.calls \o r.calls]
             ELSE r

\* Lines 50-56: the try block.
generate_question_try(topic, o) ==
    IF ~InList(model_name, available_models)
    THEN [tag |-> "raise", exc |-> ModelNotFound, calls |-> <<>>]
    ELSE generate_content("Generate a " \o topic \o " learning question.",
                          o, "question")

\* A mutated handler chain without the rate-limit clause.
generate_question_except_no_rate_limit(e) ==
    IF IsInstance(e, "RequestError")
    THEN HTTPException(400, "Invalid request: " \o str(e))
    ELSE HTTPException(500, "Unexpected error: " \o str(e))

\* Lines 58-65: the except clauses, tried in order.
generate_question_except(e) ==
    IF IsInstance(e, "RateLimitError")
    THEN HTTPException(429, "Quota exceeded. Please try again later.")
    ELSE IF IsInstance(e, "RequestError")
    THEN HTTPException(400, "Invalid request: " \o str(e))
    ELSE HTTPException(500, "Unexpected error: " \o str(e))

\* Lines 44-65; query is the optional topic parameter, default "math".
generate_question(query, o) ==
    LET topic == IF query = None THEN "math" ELSE query[1] IN
    IF ~Truthy(GENAI_API_KEY)
    THEN Raised(HTTPException(500, "Google Gemini API key is missing!"), <<>>)
    ELSE LET t == generate_question_try(topic, o)
         IN  IF t.tag = "return"
             THEN Returned(t.value, t.calls)
             ELSE Raised(generate_question_except(t.exc), t.calls)

(***************************************************************************)
(* POST /evaluate_answer                                                   *)
(***************************************************************************)
\* A mutated request model whose fields are optional (default None).
AnswerRequest_optional(body) ==
    [ok |-> TRUE,
     request |-> [f \in {"question", "answer"} |->
                    IF f \in DOMAIN body THEN body[f] ELSE "None"]]

\* Lines 68-70: the request model; both fields are required.
AnswerRequest(body) ==
    IF {"question", "answer"} \subseteq DOMAIN body
    THEN [ok |-> TRUE,
          request |-> [question |-> body["question"], answer |-> body["answer"]]]
    ELSE [ok |-> FALSE]

\* Lines 79-90: the try block.
evaluate_answer_try(request, o) ==
    IF ~InList(model_name, available_models)
    THEN [tag |-> "raise", exc |-> ModelNotFound, calls |-> <<>>]
    ELSE generate_content(
            "Here is a learning question: " \o request.question \o "\n"
            \o "The user's answer: " \o request.answer \o "\n"
            \o "Evaluate the correctness of this answer. If incorrect, provide a helpful hint or explanation.",
            o, "feedback")

\* A mutated handler chain whose invalid-request clause comes after the
\* catch-all, so that it is never taken.
evaluate_answer_except_swallowed(e) ==
    IF IsInstance(e, "RateLimitError")
    THEN HTTPException(429, "Quota exceeded. Try again later.")
    ELSE HTTPException(500, "Unexpected error: " \o str(e))

\* A mutated handler chain that answers an invalid request with status 422.
evaluate_answer_except_422(e) ==
    IF IsInstance(e, "RateLimitError")
    THEN HTTPException(429, "Quota exceeded. Try again later.")
    ELSE IF IsInstance(e, "RequestError")
    THEN HTTPException(422, "Invalid request: " \o str(e))
    ELSE HTTPException(500, "Unexpected error: " \o str(e))

\* Lines 92-99: the except clauses, tried in order.
evaluate_answer_except(e) ==
    IF IsInstance(e, "RateLimitError")
    THEN HTTPException(429, "Quota exceeded. Try again later.")
    ELSE IF IsInstance(e, "RequestError")
    THEN HTTPException(400, "Invalid request: " \o str(e))
    ELSE HTTPException(500, "Unexpected error: " \o str(e))

\* Lines 73-99, the handler body, entered with a validated request.
evaluate_answer(request, o) ==
    IF ~Truthy(GENAI_API_KEY)
    THEN Raised(HTTPException(500, "Google Gemini API key is missing!"), <<>>)
    ELSE LET t == evaluate_answer_try(request, o)
         IN  IF t.tag = "return"
             THEN Returned(t.value, t.calls)
             ELSE Raised(evaluate_answer_except(t.exc), t.calls)

\* Lines 72-73: the route.  The framework builds the AnswerRequest from the
\* body and answers 422 itself when that fails; otherwise it runs the handler.
post_evaluate_answer(body, o) ==
    LET v == AnswerRequest(body) IN
    IF v.ok
    THEN evaluate_answer(v.request, o)
    ELSE [status |-> 422, body |-> [detail |-> "Field required"], calls |-> <<>>]

(***************************************************************************)
(* Requests.  Each action is one request handled from receipt to response; *)
(* o is what the provider does if the handler calls it.                    *)
(***************************************************************************)
GetRoot ==
    /\ phase = "serving"
    /\ last' = [endpoint |-> "/", response |-> read_root]
    /\ UNCHANGED <<phase, GENAI_API_KEY, available_models, fetch_failed>>

GetGenerateQuestion ==
    /\ phase = "serving"
    /\ \E query \in Queries, o \in Outcomes :
        last' = [endpoint |-> "/generate_question", request |-> query,
                 outcome |-> o, response |-> generate_question(query, o)]
    /\ UNCHANGED <<phase, GENAI_API_KEY, available_models, fetch_failed>>

PostEvaluateAnswer ==
    /\ phase = "serving"
    /\ \E body \in Bodies, o \in Outcomes :
        last' = [endpoint |-> "/evaluate_answer", request |-> body,
                 outcome |-> o, response |-> post_evaluate_answer(body, o)]
    /\ UNCHANGED <<phase, GENAI_API_KEY, available_models, fetch_failed>>

Next ==
    \/ LoadKey
    \/ ListModels
    \/ ListModelsFails
    \/ GetRoot
    \/ GetGenerateQuestion
    \/ PostEvaluateAnswer

Spec == Init /\ [][Next]_vars

(***************************************************************************)
(* Vocabulary of the properties                                            *)
(***************************************************************************)
RequiredFields == {"question", "answer"}

\* The last request was answered by a handler body (not by GET /, and not
\* by the framework's validation of the request body).
EnteredHandler ==
    \/ last.endpoint = "/generate_question"
    \/ last.endpoint = "/evaluate_answer" /\ RequiredFields \subseteq DOMAIN last.request

ProviderCalled == EnteredHandler /\ last.response.calls /= <<>>

\* The provider call of the last request raised an exception of class cls.
ProviderRaised(cls) ==
    /\ ProviderCalled
    /\ last.outcome.kind = "raise"
    /\ last.outcome.exc.class = cls

\* The provider call of the last request returned a response carrying text.
ProviderSucceeded == ProviderCalled /\ last.outcome.kind = "text"

ModelMissing == ~InList(model_name, available_models)

ModelNotFoundDetail == "Model models/gemini-1.5-flash not found. Check your API access."

CredentialMissingDetail == "Google Gemini API key is missing!"

\* The messages an exception caught by the catch-all clause can carry.
ErrorTexts == Reasons \cup {"no text in response", "400: " \o ModelNotFoundDetail}

IsUnexpectedError(r) ==
    /\ r.status = 500
    /\ \E m \in ErrorTexts : r.body = [detail |-> "Unexpected error: " \o m]

\* s is t without its leading and trailing whitespace.
IsTrimOf(s, t) ==
    /\ \E a \in 0..Len(t) :
        /\ a + Len(s) <= Len(t)
        /\ SubSeq(t, a + 1, a + Len(s)) = s
        /\ \A i \in 1..Len(t) : (i <= a \/ i > a + Len(s)) => t[i] \in Whitespace
    /\ s /= <<>> => (s[1] \notin Whitespace /\ s[Len(s)] \notin Whitespace)

(***************************************************************************)
(* Properties                                                              *)
(***************************************************************************)

\* C1: when the configured model is not in the list fetched at startup,
\* a request that enters generate_question or evaluate_answer is answered
\* with status 400 and the model-not-found detail, and no provider call is
\* made for it.
C1_ModelMissingGives400 ==
    (EnteredHandler /\ ModelMissing) =>
        /\ last.response.status = 400
        /\ last.response.body = [detail |-> ModelNotFoundDetail]
        /\ last.response.calls = <<>>

\* C2: when the provider call of generate_question or evaluate_answer raises
\* the rate-limit error, the response has status 429 and the endpoint's
\* quota-exceeded detail.
C2_RateLimitGives429 ==
    ProviderRaised("RateLimitError") =>
        /\ last.response.status = 429
        /\ last.response.body =
             [detail |-> IF last.endpoint = "/generate_question"
                         THEN "Quota exceeded. Please try again later."
                         ELSE "Quota exceeded. Try again later."]

C2_Witness ==
    /\ last.endpoint = "/generate_question"
    /\ ProviderRaised("RateLimitError")
    /\ last.response.status = 429

\* C3: when the provider call of generate_question or evaluate_answer raises
\* the invalid-request error, the response has status 400 and the detail
\* "Invalid request: " followed by the provider's reason.
C3_InvalidRequestGives400 ==
    ProviderRaised("RequestError") =>
        /\ last.response.status = 400
        /\ last.response.body =
             [detail |-> "Invalid request: " \o last.outcome.exc.args[1]]

C3_Witness ==
    /\ last.endpoint = "/evaluate_answer"
    /\ ProviderRaised("RequestError")
    /\ last.response.status = 400

\* C4: a pipeline request ends with status 500 and an "Unexpected error: ..."
\* detail exactly when it failed and the failure is none of: credential
\* missing, model not in the available list, provider rate limit, provider
\* invalid request.
C4_CatchAllExactly ==
    EnteredHandler =>
        (IsUnexpectedError(last.response) <=>
            /\ last.response.status /= 200
            /\ Truthy(GENAI_API_KEY)
            /\ ~ModelMissing
            /\ ~ProviderRaised("RateLimitError")
            /\ ~ProviderRaised("RequestError"))

\* C5: a POST /evaluate_answer whose body lacks question or answer is
\* answered with status 422 and no provider call is made for it.
C5_MissingFieldGives422 ==
    (last.endpoint = "/evaluate_answer" /\ ~(RequiredFields \subseteq DOMAIN last.request)) =>
        /\ last.response.status = 422
        /\ last.response.calls = <<>>

C5_Witness ==
    /\ last.endpoint = "/evaluate_answer"
    /\ DOMAIN last.request = {"question"}
    /\ ~ModelMissing
    /\ last.response.status = 422

\* C6 as stated: for every topic, when the provider call succeeds,
\* generate_question answers 200 with {question: s}, s the provider's text
\* without its surrounding whitespace, and s is not empty.
C6_QuestionNonEmpty ==
    (last.endpoint = "/generate_question" /\ ProviderSucceeded) =>
        /\ last.response.status = 200
        /\ DOMAIN last.response.body = {"question"}
        /\ IsTrimOf(last.response.body["question"], last.outcome.text)
        /\ last.response.body["question"] /= <<>>

\* C6 as amended: for every topic, when the provider call returns text,
\* generate_question answers 200 with {question: s}, s the provider's text
\* without its surrounding whitespace; s is empty exactly when the text is
\* empty or all whitespace.
C6_QuestionTrimmed ==
    (last.endpoint = "/generate_question" /\ ProviderSucceeded) =>
        /\ last.response.status = 200
        /\ DOMAIN last.response.body = {"question"}
        /\ IsTrimOf(last.response.body["question"], last.outcome.text)
        /\ (last.response.body["question"] = <<>>) <=>
              (\A i \in 1..Len(last.outcome.text) : last.outcome.text[i] \in Whitespace)

C6_Witness ==
    /\ last.endpoint = "/generate_question"
    /\ ProviderSucceeded
    /\ last.request = <<"algebra">>
    /\ last.outcome.text = <<" ", "Q", "\n">>
    /\ last.response.body = [question |-> <<"Q">>]

\* C7: no request causes more than one provider call, and a request whose
\* provider call fails is answered with the mapped error after that one call.
C7_NoRetries ==
    EnteredHandler =>
        /\ Len(last.response.calls) <= 1
        /\ (ProviderCalled /\ last.outcome.kind /= "text") =>
              /\ Len(last.response.calls) = 1
              /\ last.response.status \in {400, 429, 500}

C7_Witness ==
    /\ last.endpoint = "/generate_question"
    /\ ProviderRaised("ConnectionError")
    /\ Len(last.response.calls) = 1
    /\ last.response.status = 500

\* The responses of the other operation, in the current startup state, to
\* valid requests whose provider call would do what the last one's did.
OtherOperation ==
    IF last.endpoint = "/generate_question"
    THEN {post_evaluate_answer(b, last.outcome) :
            b \in {x \in Bodies : RequiredFields \subseteq DOMAIN x}}
    ELSE {generate_question(q, last.outcome) : q \in Queries}

\* C8 as stated: for the same startup state and the same provider outcome,
\* a failure of one operation has the same status code and the same detail
\* payload as the failure of the other.
C8_SameMapping ==
    (EnteredHandler /\ last.response.status /= 200) =>
        \A r \in OtherOperation :
            /\ r.status = last.response.status
            /\ r.body = last.response.body

\* C8 as amended: the status code is the same, and the detail payload is
\* the same except after a provider rate-limit error, where generate_question
\* says "Quota exceeded. Please try again later." and evaluate_answer says
\* "Quota exceeded. Try again later."
C8_SameMappingButQuotaWording ==
    (EnteredHandler /\ last.response.status /= 200) =>
        \A r \in OtherOperation :
            /\ r.status = last.response.status
            /\ ~ProviderRaised("RateLimitError") => r.body = last.response.body
            /\ ProviderRaised("RateLimitError") =>
                 {r.body, last.response.body} =
                    {[detail |-> "Quota exceeded. Please try again later."],
                     [detail |-> "Quota exceeded. Try again later."]}

C8_Witness ==
    /\ last.endpoint = "/generate_question"
    /\ ProviderRaised("RequestError")
    /\ last.response.status = 400
    /\ \A r \in OtherOperation : r = [last.response EXCEPT !.calls = r.calls]

\* C9: a missing credential stops the process at startup, so whenever the
\* service is serving the credential is set, and no request is answered with
\* the 500 "key is missing" response.
C9_CredentialSetWhenServing ==
    /\ phase \in {"configured", "serving"} => Truthy(GENAI_API_KEY)
    /\ (phase /= "import" /\ ~Truthy(GENAI_API_KEY)) => (phase = "crashed" /\ last = NoRequest)
    /\ EnteredHandler => last.response.body /= [detail |-> CredentialMissingDetail]

C9_Witness ==
    /\ phase = "crashed"
    /\ GENAI_API_KEY = <<"">>

C10_State ==
    fetch_failed =>
        /\ phase = "serving"
        /\ available_models = <<>>
        /\ last.endpoint \in {"/generate_question", "/evaluate_answer"} =>
              /\ last.response.status >= 400
              /\ last.response.calls = <<>>
        /\ last.endpoint = "/" => last.response.status = 200

\* C10: when the fetch of the model list fails at startup the process still
\* serves, with an empty model list that never changes; every
\* generate_question and evaluate_answer request then gets an error status
\* without a provider call, and GET / is answered 200.
C10_FetchFailureDisablesPipeline ==
    /\ []C10_State
    /\ [][fetch_failed => (fetch_failed' /\ available_models' = available_models)]_vars

C10_Witness ==
    /\ fetch_failed
    /\ last.endpoint = "/evaluate_answer"
    /\ RequiredFields \subseteq DOMAIN last.request
    /\ last.outcome.kind = "text"
    /\ last.response.status = 500

====
